---- MODULE Spec2Model ----
(***************************************************************************)
(* A model of the fixed-capacity order book of src/src/orderbook.rs:       *)
(* two arrays of quantities indexed by an anchor-relative, masked slot,    *)
(* a cached best slot and a running total per side.                        *)
(*                                                                         *)
(* Scaling.  The source fixes CAP = 4096 = 2^12, a 64-bit usize and a      *)
(* fixed-width unsigned Quantity.  The model keeps every formula of the    *)
(* source and takes the three widths as bounds: CAP = 2^LogCap, usize of   *)
(* UsizeBits bits, Quantity of QuantityBits bits.  Prices are drawn from   *)
(* a range around the anchor that is far from the limits of the signed     *)
(* 64-bit Price, so the wrapping price arithmetic never wraps there.       *)
(***************************************************************************)
EXTENDS Integers, Sequences, FiniteSets, TLC

\* ------------------------------------------------------------------ bounds
LogCap == 3          \* CAP = 2^LogCap slots per side
UsizeBits == 8       \* width of usize in the model
QuantityBits == 2    \* width of the unsigned Quantity type
PriceSpan == 5       \* update prices range over anchor -/+ PriceSpan
MaxUpdates == 2      \* updates applied in one run, prices unrestricted
MaxSpanUpdates == 4  \* updates applied in one run, levels within the half-capacity span
MaxAliasUpdates == 3 \* updates applied in one run, prices one window apart
ProbeSpan == 17      \* prices given to the index mapping range over anchor -/+ ProbeSpan

\* ------------------------------------------------------------- constants
CAP == 2 ^ LogCap
CAP_MASK == CAP - 1
HALF_CAP == CAP \div 2
CAP_I64 == CAP
ANCHOR == 10000

UsizeMod == 2 ^ UsizeBits
QuantityMod == 2 ^ QuantityBits
QuantityMax == QuantityMod - 1

Side == {"Bid", "Ask"}
Slots == 0 .. (CAP - 1)
Quantity == 0 .. QuantityMax
Prices == (ANCHOR - PriceSpan) .. (ANCHOR + PriceSpan)
\* The representable window (anchor - CAP/2, anchor + CAP/2].
Window == (ANCHOR - HALF_CAP + 1) .. (ANCHOR + HALF_CAP)
ProbePrices == (ANCHOR - ProbeSpan) .. (ANCHOR + ProbeSpan)
\* Quantities an update carries: none, one unit, the largest value of the type.
UpdateQuantities == {0, 1, QuantityMax}

None == <<"None">>
Some(x) == <<"Some", x>>

SetUpdate(p, q, s) == [kind |-> "Set", price |-> p, quantity |-> q, side |-> s]
RemoveUpdate(p, s) == [kind |-> "Remove", price |-> p, side |-> s]

\* ------------------------------------------------------ machine arithmetic
RECURSIVE BitAnd(_, _)
\* a & b on non-negative integers.
BitAnd(a, b) ==
  IF a = 0 \/ b = 0 THEN 0
  ELSE (a % 2) * (b % 2) + 2 * BitAnd(a \div 2, b \div 2)

\* A subtraction that stops at 0 instead of wrapping.
SaturatingSubUsize(x, y) == IF x >= y THEN x - y ELSE 0

\* x.wrapping_sub(y) as usize: the difference reduced to the usize width.
WrappingSubUsize(x, y) == (x - y) % UsizeMod

\* ------------------------------------------------------------------ state
VARIABLES
  bids, asks,                \* [Quantity; CAP] per side
  anchor_price,
  best_bid_idx, best_ask_idx,
  total_bid_quantity, total_ask_quantity,
  panicked,                  \* an arithmetic overflow check aborted apply_update
  wrapped,                   \* an overflow has wrapped: the build has no overflow checks
  updates,                   \* number of updates applied so far
  latest,                    \* history: per (side, price), the quantity asked for by
                             \* its last update and by the one before (0: none, removal)
  touched,                   \* history: the side of the last update applied
  probe                      \* a call of the index mapping: its input and results

vars == <<bids, asks, anchor_price, best_bid_idx, best_ask_idx,
          total_bid_quantity, total_ask_quantity, panicked, wrapped, updates,
          latest, touched, probe>>

\* The OrderBookImpl value held in the variables.
Self ==
  [bids |-> bids, asks |-> asks, anchor_price |-> anchor_price,
   best_bid_idx |-> best_bid_idx, best_ask_idx |-> best_ask_idx,
   total_bid_quantity |-> total_bid_quantity,
   total_ask_quantity |-> total_ask_quantity]

\* new whose ask array is filled with 1 instead of 0.
new_asks_filled ==
  [bids |-> [i \in Slots |-> 0], asks |-> [i \in Slots |-> 1],
   anchor_price |-> ANCHOR,
   best_bid_idx |-> 0, best_ask_idx |-> CAP_MASK,
   total_bid_quantity |-> 0, total_ask_quantity |-> 0]

new ==
  [bids |-> [i \in Slots |-> 0], asks |-> [i \in Slots |-> 0],
   anchor_price |-> ANCHOR,
   best_bid_idx |-> 0, best_ask_idx |-> CAP_MASK,
   total_bid_quantity |-> 0, total_ask_quantity |-> 0]

\* ------------------------------------------------------------ index mapping
price_to_index(self, price) ==
  BitAnd(WrappingSubUsize(price, self.anchor_price), CAP_MASK)

\* index_to_price with the half-capacity slot counted as a negative offset.
index_to_price_from_half(self, index) ==
  LET offset == index
      adjustment == IF offset >= HALF_CAP THEN -CAP_I64 ELSE 0
  IN self.anchor_price + offset + adjustment

index_to_price(self, index) ==
  LET offset == index
      adjustment == IF offset > HALF_CAP THEN -CAP_I64 ELSE 0
  IN self.anchor_price + offset + adjustment

RECURSIVE recalculate_bid_scan_to_mask(_, _)
\* recalculate_bid_scan whose empty-side value is CAP_MASK, as for Ask.
recalculate_bid_scan_to_mask(book, i) ==
  IF i < 0 THEN CAP_MASK
  ELSE IF book[i] > 0 THEN i
  ELSE recalculate_bid_scan_to_mask(book, i - 1)

RECURSIVE recalculate_bid_scan(_, _)
\* for i in (0..CAP).rev(): the first non-zero slot, else 0.
recalculate_bid_scan(book, i) ==
  IF i < 0 THEN 0
  ELSE IF book[i] > 0 THEN i
  ELSE recalculate_bid_scan(book, i - 1)

RECURSIVE recalculate_ask_scan_to_cap(_, _)
\* recalculate_ask_scan whose empty-side value is CAP, one past the array.
recalculate_ask_scan_to_cap(book, i) ==
  IF i >= CAP THEN CAP
  ELSE IF book[i] > 0 THEN i
  ELSE recalculate_ask_scan_to_cap(book, i + 1)

RECURSIVE recalculate_ask_scan(_, _)
\* for i in 0..CAP: the first non-zero slot, else CAP_MASK.
recalculate_ask_scan(book, i) ==
  IF i >= CAP THEN CAP_MASK
  ELSE IF book[i] > 0 THEN i
  ELSE recalculate_ask_scan(book, i + 1)

\* The value left in *best_idx.
recalculate_best_index(side, best_idx, book) ==
  IF side = "Bid" THEN recalculate_bid_scan(book, CAP - 1)
  ELSE recalculate_ask_scan(book, 0)

\* ----------------------------------------------------------- apply_update
\* The (book, best_idx, total_qty) references selected by `match side`.
SideBook(self, side) == IF side = "Bid" THEN self.bids ELSE self.asks
SideBest(self, side) == IF side = "Bid" THEN self.best_bid_idx ELSE self.best_ask_idx
SideTotal(self, side) ==
  IF side = "Bid" THEN self.total_bid_quantity ELSE self.total_ask_quantity

\* WriteSide whose Ask arm keeps its total in the Bid accumulator.
WriteSide_shared_total(self, side, book, best_idx, total_qty) ==
  IF side = "Bid"
  THEN [self EXCEPT !.bids = book, !.best_bid_idx = best_idx,
                    !.total_bid_quantity = total_qty]
  ELSE [self EXCEPT !.asks = book, !.best_ask_idx = best_idx,
                    !.total_bid_quantity = total_qty]

\* Writing through the three references.
WriteSide(self, side, book, best_idx, total_qty) ==
  IF side = "Bid"
  THEN [self EXCEPT !.bids = book, !.best_bid_idx = best_idx,
                    !.total_bid_quantity = total_qty]
  ELSE [self EXCEPT !.asks = book, !.best_ask_idx = best_idx,
                    !.total_ask_quantity = total_qty]

\* write_slot that adds to the resting quantity instead of replacing it.
write_slot_accumulate(book, index, quantity) ==
  [book EXCEPT ![index] = IF quantity = 0 THEN 0 ELSE (@ + quantity) % QuantityMod]

\* write_slot that never clears a slot.
write_slot_keeps_level(book, index, quantity) ==
  IF quantity = 0 THEN book ELSE [book EXCEPT ![index] = quantity]

\* *book.get_unchecked_mut(index) = quantity.
write_slot(book, index, quantity) == [book EXCEPT ![index] = quantity]

\* The result of one call: the book it leaves, whether an overflow check
\* aborted it, and whether an addition or subtraction left the Quantity range.
Outcome(self, abort, overflow) ==
  [book |-> self, panicked |-> abort, overflowed |-> overflow,
   rescanned |-> FALSE]

\* The result of a call that ran recalculate_best_index.
Rescanned(out) == [out EXCEPT !.rescanned = TRUE]

\* set_best_index without the case of a side that was empty.
set_best_index_compare_only(index, best_idx, total_qty, quantity, is_bid) ==
  IF is_bid
  THEN IF BitAnd(WrappingSubUsize(index, best_idx), CAP_MASK) < CAP \div 2
       THEN index ELSE best_idx
  ELSE IF BitAnd(WrappingSubUsize(best_idx, index), CAP_MASK) < CAP \div 2
       THEN index ELSE best_idx

\* The best index after a Set with quantity > 0 (lines 63-73).
set_best_index(index, best_idx, total_qty, quantity, is_bid) ==
  IF total_qty = quantity THEN index
  ELSE IF is_bid
  THEN IF BitAnd(WrappingSubUsize(index, best_idx), CAP_MASK) < CAP \div 2
       THEN index ELSE best_idx
  ELSE IF BitAnd(WrappingSubUsize(best_idx, index), CAP_MASK) < CAP \div 2
       THEN index ELSE best_idx

\* Update::Set (lines 42-82).  checks: the build has overflow checks, so
\* an addition or subtraction that leaves the Quantity range panics instead
\* of wrapping; the panic leaves the writes made before it.
apply_set(self, price, quantity, side, checks) ==
  LET index == BitAnd(WrappingSubUsize(price, self.anchor_price), CAP_MASK)
      book == SideBook(self, side)
      best_idx == SideBest(self, side)
      total_qty == SideTotal(self, side)
      is_bid == (side = "Bid")
      old_quantity == book[index]
  IN IF quantity > 0
     THEN LET book1 == write_slot(book, index, quantity)
              diff == total_qty - old_quantity
              sum == IF old_quantity = 0 THEN total_qty + quantity
                     ELSE (diff % QuantityMod) + quantity
              overflow == (old_quantity # 0 /\ diff < 0) \/ sum >= QuantityMod
          IN IF overflow /\ checks
             THEN Outcome(WriteSide(self, side, book1, best_idx, total_qty), TRUE, TRUE)
             ELSE LET total1 == sum % QuantityMod
                      best1 == set_best_index(index, best_idx, total1, quantity, is_bid)
                  IN Outcome(WriteSide(self, side, book1, best1, total1), FALSE, overflow)
     ELSE IF old_quantity > 0
     THEN LET book1 == write_slot(book, index, 0)
              diff == total_qty - old_quantity
              overflow == diff < 0
          IN IF overflow /\ checks
             THEN Outcome(WriteSide(self, side, book1, best_idx, total_qty), TRUE, TRUE)
             ELSE LET total1 == diff % QuantityMod
                  IN IF index = best_idx
                     THEN LET best1 == recalculate_best_index(side, best_idx, book1)
                          IN Rescanned(Outcome(WriteSide(self, side, book1, best1, total1),
                                               FALSE, overflow))
                     ELSE Outcome(WriteSide(self, side, book1, best_idx, total1),
                                  FALSE, overflow)
     ELSE Outcome(self, FALSE, FALSE)

\* apply_remove that never rescans for the best index.
apply_remove_no_rescan(self, price, side, checks) ==
  LET index == BitAnd(WrappingSubUsize(price, self.anchor_price), CAP_MASK)
      book == SideBook(self, side)
      best_idx == SideBest(self, side)
      total_qty == SideTotal(self, side)
      removed_quantity == book[index]
  IN IF removed_quantity > 0
     THEN LET book1 == write_slot(book, index, 0)
              diff == total_qty - removed_quantity
              overflow == diff < 0
          IN IF overflow /\ checks
             THEN Outcome(WriteSide(self, side, book1, best_idx, total_qty), TRUE, TRUE)
             ELSE Outcome(WriteSide(self, side, book1, best_idx, diff % QuantityMod),
                          FALSE, overflow)
     ELSE Outcome(self, FALSE, FALSE)

\* apply_remove that rescans whenever it clears a level, whichever slot.
apply_remove_always_rescan(self, price, side, checks) ==
  LET index == BitAnd(WrappingSubUsize(price, self.anchor_price), CAP_MASK)
      book == SideBook(self, side)
      best_idx == SideBest(self, side)
      total_qty == SideTotal(self, side)
      removed_quantity == book[index]
  IN IF removed_quantity > 0
     THEN LET book1 == write_slot(book, index, 0)
              diff == total_qty - removed_quantity
              overflow == diff < 0
          IN IF overflow /\ checks
             THEN Outcome(WriteSide(self, side, book1, best_idx, total_qty), TRUE, TRUE)
             ELSE LET total1 == diff % QuantityMod
                      best1 == recalculate_best_index(side, best_idx, book1)
                  IN Rescanned(Outcome(WriteSide(self, side, book1, best1, total1),
                                       FALSE, overflow))
     ELSE Outcome(self, FALSE, FALSE)

\* Update::Remove (lines 84-102).
apply_remove(self, price, side, checks) ==
  LET index == BitAnd(WrappingSubUsize(price, self.anchor_price), CAP_MASK)
      book == SideBook(self, side)
      best_idx == SideBest(self, side)
      total_qty == SideTotal(self, side)
      removed_quantity == book[index]
  IN IF removed_quantity > 0
     THEN LET book1 == write_slot(book, index, 0)
              diff == total_qty - removed_quantity
              overflow == diff < 0
          IN IF overflow /\ checks
             THEN Outcome(WriteSide(self, side, book1, best_idx, total_qty), TRUE, TRUE)
             ELSE LET total1 == diff % QuantityMod
                  IN IF index = best_idx
                     THEN LET best1 == recalculate_best_index(side, best_idx, book1)
                          IN Rescanned(Outcome(WriteSide(self, side, book1, best1, total1),
                                               FALSE, overflow))
                     ELSE Outcome(WriteSide(self, side, book1, best_idx, total1),
                                  FALSE, overflow)
     ELSE Outcome(self, FALSE, FALSE)

apply_update(self, update, checks) ==
  IF update.kind = "Set"
  THEN apply_set(self, update.price, update.quantity, update.side, checks)
  ELSE apply_remove(self, update.price, update.side, checks)

\* ------------------------------------------------------------------ queries
\* get_spread with the operands of the subtraction exchanged.
get_spread_bid_minus_ask(self) ==
  IF self.total_bid_quantity = 0 \/ self.total_ask_quantity = 0 THEN None
  ELSE LET bid == index_to_price(self, self.best_bid_idx)
           ask == index_to_price(self, self.best_ask_idx)
       IN Some(bid - ask)

get_spread(self) ==
  IF self.total_bid_quantity = 0 \/ self.total_ask_quantity = 0 THEN None
  ELSE LET bid == index_to_price(self, self.best_bid_idx)
           ask == index_to_price(self, self.best_ask_idx)
       IN Some(ask - bid)

get_best_bid(self) ==
  IF self.total_bid_quantity = 0 THEN None
  ELSE Some(index_to_price(self, self.best_bid_idx))

get_best_ask(self) ==
  IF self.total_ask_quantity = 0 THEN None
  ELSE Some(index_to_price(self, self.best_ask_idx))

get_quantity_at(self, price, side) ==
  LET index == BitAnd(WrappingSubUsize(price, self.anchor_price), CAP_MASK)
      qty == IF side = "Bid" THEN self.bids[index] ELSE self.asks[index]
  IN IF qty > 0 THEN Some(qty) ELSE None

RECURSIVE top_levels_bid_scan(_, _, _, _)
\* for i in (0..CAP).rev(): push every non-zero level, break once len >= n.
top_levels_bid_scan(self, n, i, result) ==
  IF i < 0 THEN result
  ELSE LET qty == self.bids[i]
       IN IF qty > 0
          THEN LET pushed == Append(result, <<index_to_price(self, i), qty>>)
               IN IF Len(pushed) >= n THEN pushed
                  ELSE top_levels_bid_scan(self, n, i - 1, pushed)
          ELSE top_levels_bid_scan(self, n, i - 1, result)

RECURSIVE top_levels_ask_scan(_, _, _, _)
\* for i in 0..CAP: push every non-zero level, break once len >= n.
top_levels_ask_scan(self, n, i, result) ==
  IF i >= CAP THEN result
  ELSE LET qty == self.asks[i]
       IN IF qty > 0
          THEN LET pushed == Append(result, <<index_to_price(self, i), qty>>)
               IN IF Len(pushed) >= n THEN pushed
                  ELSE top_levels_ask_scan(self, n, i + 1, pushed)
          ELSE top_levels_ask_scan(self, n, i + 1, result)

get_top_levels(self, side, n) ==
  IF side = "Bid" THEN top_levels_bid_scan(self, n, CAP - 1, <<>>)
  ELSE top_levels_ask_scan(self, n, 0, <<>>)

get_total_quantity(self, side) ==
  IF side = "Bid" THEN self.total_bid_quantity ELSE self.total_ask_quantity

\* ---------------------------------------------------------- specification
NoProbe == [stage |-> "idle", price |-> ANCHOR, index |-> 0, back |-> ANCHOR]

InitBook ==
  /\ bids = new.bids
  /\ asks = new.asks
  /\ anchor_price = new.anchor_price
  /\ best_bid_idx = new.best_bid_idx
  /\ best_ask_idx = new.best_ask_idx
  /\ total_bid_quantity = new.total_bid_quantity
  /\ total_ask_quantity = new.total_ask_quantity
  /\ panicked = FALSE
  /\ wrapped = FALSE
  /\ updates = 0
  /\ latest = [k \in Side \X Window |-> [quantity |-> 0, previous |-> 0]]
  /\ touched = "none"

Init == InitBook /\ probe = NoProbe

\* The overflow behaviours the build can still show: once an overflow has
\* wrapped, the build is known to have no overflow checks.
Builds == IF wrapped THEN {FALSE} ELSE BOOLEAN

\* The book, and the two build flags, after a call that ended as `out`.
Becomes(out) ==
  /\ bids' = out.book.bids
  /\ asks' = out.book.asks
  /\ anchor_price' = out.book.anchor_price
  /\ best_bid_idx' = out.book.best_bid_idx
  /\ best_ask_idx' = out.book.best_ask_idx
  /\ total_bid_quantity' = out.book.total_bid_quantity
  /\ total_ask_quantity' = out.book.total_ask_quantity
  /\ panicked' = out.panicked
  /\ wrapped' = (wrapped \/ (out.overflowed /\ ~out.panicked))

\* One call of apply_update on the book; a panic ends the run.
Apply(update, limit) ==
  /\ ~panicked
  /\ updates < limit
  /\ \E checks \in Builds : Becomes(apply_update(Self, update, checks))
  /\ updates' = updates + 1
  /\ touched' = update.side
  /\ UNCHANGED probe

ApplySet ==
  \E p \in Prices, q \in UpdateQuantities, s \in Side :
    Apply(SetUpdate(p, q, s), MaxUpdates) /\ UNCHANGED latest

ApplyRemove ==
  \E p \in Prices, s \in Side :
    Apply(RemoveUpdate(p, s), MaxUpdates) /\ UNCHANGED latest

Next == ApplySet \/ ApplyRemove

Spec == Init /\ [][Next]_vars

\* Updates whose prices all lie in the representable window; `latest`
\* records what the last update of each (side, price) asked for.
WindowSet ==
  \E p \in Window, q \in UpdateQuantities, s \in Side :
    /\ Apply(SetUpdate(p, q, s), MaxUpdates)
    /\ latest' = [latest EXCEPT ![<<s, p>>] = [quantity |-> q, previous |-> @.quantity]]

WindowRemove ==
  \E p \in Window, s \in Side :
    /\ Apply(RemoveUpdate(p, s), MaxUpdates)
    /\ latest' = [latest EXCEPT ![<<s, p>>] = [quantity |-> 0, previous |-> @.quantity]]

NextInWindow == WindowSet \/ WindowRemove

SpecInWindow == Init /\ [][NextInWindow]_vars

\* The prices of the non-zero levels of a side, read through get_quantity_at.
LivePrices(self, side) ==
  {p \in Window : get_quantity_at(self, p, side) # None}

\* All live levels of the side lie within a half-capacity span of each other.
WithinHalfSpan(self, side) ==
  \A p1, p2 \in LivePrices(self, side) : p1 - p2 < HALF_CAP

\* Updates in the window that keep the live levels of each side within a
\* half-capacity span.
SpanSet ==
  \E p \in Window, q \in UpdateQuantities, s \in Side :
    /\ Apply(SetUpdate(p, q, s), MaxSpanUpdates)
    /\ WithinHalfSpan(Self', s)
    /\ UNCHANGED latest

SpanRemove ==
  \E p \in Window, s \in Side :
    /\ Apply(RemoveUpdate(p, s), MaxSpanUpdates)
    /\ UNCHANGED latest

NextSpan == SpanSet \/ SpanRemove

SpecSpan == Init /\ [][NextSpan]_vars

\* Updates at a few prices around the anchor and at the prices one window
\* above and below them, which share their slots.
AliasBase == {ANCHOR - 1, ANCHOR, ANCHOR + 2}
AliasPrices == {p + k * CAP : p \in AliasBase, k \in {-1, 0, 1}}

AliasSet ==
  \E p \in AliasPrices, q \in UpdateQuantities, s \in Side :
    Apply(SetUpdate(p, q, s), MaxAliasUpdates) /\ UNCHANGED latest

AliasRemove ==
  \E p \in AliasPrices, s \in Side :
    Apply(RemoveUpdate(p, s), MaxAliasUpdates) /\ UNCHANGED latest

NextAlias == AliasSet \/ AliasRemove

SpecAlias == Init /\ [][NextAlias]_vars

\* The index mapping on its own: a price in, its slot, the slot's price back.
InitMap ==
  /\ InitBook
  /\ probe \in {[stage |-> "input", price |-> p, index |-> 0, back |-> ANCHOR] :
                  p \in ProbePrices}

CallPriceToIndex ==
  /\ probe.stage = "input"
  /\ probe' = [probe EXCEPT !.stage = "index",
                            !.index = price_to_index(Self, probe.price)]
  /\ UNCHANGED <<bids, asks, anchor_price, best_bid_idx, best_ask_idx,
                 total_bid_quantity, total_ask_quantity, panicked, wrapped,
                 updates, latest, touched>>

CallIndexToPrice ==
  /\ probe.stage = "index"
  /\ probe' = [probe EXCEPT !.stage = "back",
                            !.back = index_to_price(Self, probe.index)]
  /\ UNCHANGED <<bids, asks, anchor_price, best_bid_idx, best_ask_idx,
                 total_bid_quantity, total_ask_quantity, panicked, wrapped,
                 updates, latest, touched>>

NextMap == CallPriceToIndex \/ CallIndexToPrice

SpecMap == InitMap /\ [][NextMap]_vars

\* -------------------------------------------------------------- properties
RECURSIVE SumSlots(_, _)
\* The sum of the slots i .. CAP-1 of a level array.
SumSlots(book, i) == IF i >= CAP THEN 0 ELSE book[i] + SumSlots(book, i + 1)

\* C1: at every point of any sequence of updates, get_total_quantity(side)
\* equals the sum of the non-zero slots of that side, for both sides.
C1_TotalIsSumOfSlots ==
  ~panicked =>
    \A side \in Side :
      get_total_quantity(Self, side) = SumSlots(SideBook(Self, side), 0)

\* The total of each side is the sum of its slots in every state reached
\* without a wrapped overflow (the part of C1 the code keeps).
TotalIsSumUnlessWrapped ==
  (~panicked /\ ~wrapped) =>
    \A side \in Side :
      get_total_quantity(Self, side) = SumSlots(SideBook(Self, side), 0)

Max(S) == CHOOSE x \in S : \A y \in S : y <= x
Min(S) == CHOOSE x \in S : \A y \in S : x <= y

\* C2: with all prices in the window and the live levels of a side within a
\* half-capacity span, whenever the total of a side is positive get_best_bid
\* is the highest live Bid price and get_best_ask the lowest live Ask price.
\* Stated for runs in which no total has overflowed.
C2_BestIsExtremePrice ==
  (~panicked /\ ~wrapped) =>
    /\ get_total_quantity(Self, "Bid") > 0 =>
         get_best_bid(Self) = Some(Max(LivePrices(Self, "Bid")))
    /\ get_total_quantity(Self, "Ask") > 0 =>
         get_best_ask(Self) = Some(Min(LivePrices(Self, "Ask")))

\* The number of live levels of a side.
LiveCount(self, side) == Cardinality(LivePrices(self, side))

\* C3: with all prices in the window, get_top_levels(side, n) for n >= 1
\* returns the min(n, live levels) best levels, best first: prices strictly
\* decreasing for Bid and strictly increasing for Ask, each with the exact
\* quantity resting at that price.
C3_TopLevelsBestFirst ==
  ~panicked =>
    \A side \in Side, n \in 1 .. CAP :
      LET top == get_top_levels(Self, side, n)
          live == LivePrices(Self, side)
          k == IF n < Cardinality(live) THEN n ELSE Cardinality(live)
      IN /\ Len(top) = k
         /\ \A i \in 1 .. Len(top) :
              /\ top[i][1] \in live
              /\ get_quantity_at(Self, top[i][1], side) = Some(top[i][2])
              \* the i-th best: exactly i-1 live prices are better
              /\ Cardinality({p \in live :
                   IF side = "Bid" THEN p > top[i][1] ELSE p < top[i][1]}) = i - 1

\* C4: for every side and every n >= 0, get_top_levels(side, n) has length
\* at most n.
C4_TopLevelsAtMostN ==
  \A side \in Side, n \in 0 .. (CAP + 1) :
    Len(get_top_levels(Self, side, n)) <= n

\* C5: with all prices in the window, get_quantity_at(p, side) is what the
\* most recent update of (p, side) asked for: Some(q) after Set with q > 0,
\* None after Remove, after Set with 0 and when (p, side) was never updated.
C5_QuantityAtIsLatestUpdate ==
  \A p \in Window, side \in Side :
    get_quantity_at(Self, p, side) =
      IF latest[<<side, p>>].quantity > 0
      THEN Some(latest[<<side, p>>].quantity) ELSE None

\* A level set to one unit and then to the largest quantity reads the
\* largest quantity, while another level of the book rests beside it.
C5_Witness ==
  \E p \in Window, side \in Side :
    /\ latest[<<side, p>>] = [quantity |-> QuantityMax, previous |-> 1]
    /\ get_quantity_at(Self, p, side) = Some(QuantityMax)
    /\ ~panicked

Other(side) == IF side = "Bid" THEN "Ask" ELSE "Bid"

\* A Set of price p on `side` that meets or passes the best of the other side.
Crosses(self, p, side) ==
  IF side = "Bid"
  THEN get_best_ask(self) # None /\ p >= get_best_ask(self)[2]
  ELSE get_best_bid(self) # None /\ p <= get_best_bid(self)[2]

\* C6: get_spread is None unless both totals are positive, and is otherwise
\* get_best_ask minus get_best_bid, negative when the book is crossed; a
\* Set that crosses the book is stored as received and changes no level of
\* the other side.
C6_SpreadIsAskMinusBid ==
  /\ get_spread(Self) =
       IF get_total_quantity(Self, "Bid") > 0 /\ get_total_quantity(Self, "Ask") > 0
       THEN Some(get_best_ask(Self)[2] - get_best_bid(Self)[2])
       ELSE None
  /\ ~panicked =>
       \A p \in Prices, q \in UpdateQuantities \ {0}, side \in Side, checks \in Builds :
         Crosses(Self, p, side) =>
           LET out == apply_update(Self, SetUpdate(p, q, side), checks)
           IN /\ get_quantity_at(out.book, p, side) = Some(q)
              /\ SideBook(out.book, Other(side)) = SideBook(Self, Other(side))

\* A crossed book: the best ask lies below the best bid.
C6_Witness ==
  /\ ~panicked
  /\ get_spread(Self) # None
  /\ get_spread(Self)[2] < 0
  /\ get_best_ask(Self)[2] < get_best_bid(Self)[2]

\* The lengths asked of get_top_levels: a run leaves at most MaxUpdates
\* levels, and every larger n returns what n = MaxUpdates + 1 returns.
TopN == 0 .. (MaxUpdates + 1)

\* What a caller can observe of a book.
Observed(self) ==
  [totals |-> [side \in Side |-> get_total_quantity(self, side)],
   quantity_at |-> [k \in Side \X Prices |-> get_quantity_at(self, k[2], k[1])],
   best_bid |-> get_best_bid(self),
   best_ask |-> get_best_ask(self),
   spread |-> get_spread(self),
   top_levels |-> [k \in Side \X TopN |-> get_top_levels(self, k[1], k[2])]]

\* Two books a caller cannot tell apart (equal books are not observed twice).
SameObserved(a, b) == a = b \/ Observed(a) = Observed(b)

\* C7: a second Remove(p, side) directly after Remove(p, side), and
\* Set(p, 0, side) on a slot that holds 0, change nothing a caller observes.
C7_RemovalIsIdempotent ==
  ~panicked =>
    \A p \in Prices, side \in Side, checks \in Builds :
      LET once == apply_update(Self, RemoveUpdate(p, side), checks)
          twice == apply_update(once.book, RemoveUpdate(p, side), checks)
          zero == apply_update(Self, SetUpdate(p, 0, side), checks)
      IN /\ ~once.panicked =>
              ~twice.panicked /\ SameObserved(twice.book, once.book)
         /\ get_quantity_at(Self, p, side) = None =>
              ~zero.panicked /\ SameObserved(zero.book, Self)

\* The best level of a side with two levels is removed: the first Remove
\* changes the book (total, best, levels), the second finds the slot empty.
C7_Witness ==
  /\ ~panicked
  /\ \E p \in Prices, side \in Side :
       LET once == apply_update(Self, RemoveUpdate(p, side), FALSE)
       IN /\ LiveCount(Self, side) = 2
          /\ SideBest(Self, side) = BitAnd(WrappingSubUsize(p, anchor_price), CAP_MASK)
          /\ get_quantity_at(Self, p, side) # None
          /\ Observed(once.book) # Observed(Self)
          /\ get_quantity_at(once.book, p, side) = None

\* C8: index_to_price(price_to_index(p)) = p for every price p of the
\* window (anchor - CAP/2, anchor + CAP/2], so two distinct prices of the
\* window never share a slot.
C8_SlotInverse ==
  /\ (probe.stage = "back" /\ probe.price \in Window) => probe.back = probe.price
  /\ \A p1, p2 \in Window :
       p1 # p2 => price_to_index(Self, p1) # price_to_index(Self, p2)

\* The lowest price of the window went through a slot above CAP/2 and back.
C8_Witness ==
  /\ probe.stage = "back"
  /\ probe.price = ANCHOR - HALF_CAP + 1
  /\ probe.index > HALF_CAP
  /\ probe.back = probe.price

\* C9: from every reachable state, Set(p, 0, side) leaves exactly the book
\* (level arrays, best indices, totals) that Remove(p, side) leaves.
C9_SetZeroIsRemove ==
  ~panicked =>
    \A p \in Prices, side \in Side, checks \in Builds :
      apply_update(Self, SetUpdate(p, 0, side), checks) =
        apply_update(Self, RemoveUpdate(p, side), checks)

\* The best of two levels is cleared: both ways rescan to the other level.
C9_Witness ==
  /\ ~panicked
  /\ \E p \in Prices, side \in Side :
       LET out == apply_update(Self, SetUpdate(p, 0, side), FALSE)
       IN /\ LiveCount(Self, side) = 2
          /\ SideBest(Self, side) = BitAnd(WrappingSubUsize(p, anchor_price), CAP_MASK)
          /\ SideBook(Self, side)[SideBest(Self, side)] > 0
          /\ SideBest(out.book, side) # SideBest(Self, side)
          /\ SideBook(out.book, side)[SideBest(out.book, side)] > 0
          /\ out = apply_update(Self, RemoveUpdate(p, side), FALSE)

\* What the queries return for one side.
ObservedSide(self, side) ==
  [total |-> get_total_quantity(self, side),
   best |-> IF side = "Bid" THEN get_best_bid(self) ELSE get_best_ask(self),
   quantity_at |-> [p \in Prices |-> get_quantity_at(self, p, side)],
   top_levels |-> [n \in TopN |-> get_top_levels(self, side, n)]]

\* A step leaves the Bid side as it was.
BidUnchanged ==
  /\ bids' = bids
  /\ best_bid_idx' = best_bid_idx
  /\ total_bid_quantity' = total_bid_quantity
  /\ ObservedSide(Self', "Bid") = ObservedSide(Self, "Bid")

\* A step leaves the Ask side as it was.
AskUnchanged ==
  /\ asks' = asks
  /\ best_ask_idx' = best_ask_idx
  /\ total_ask_quantity' = total_ask_quantity
  /\ ObservedSide(Self', "Ask") = ObservedSide(Self, "Ask")

\* C10: an update on one side leaves the other side's level array, best
\* index and total unchanged, and with them what get_best, get_quantity_at,
\* get_total_quantity and get_top_levels return for the other side.
C10_OtherSideUntouched ==
  [][/\ touched' = "Bid" => AskUnchanged
     /\ touched' = "Ask" => BidUnchanged]_vars

\* An update of the Ask side has changed the Ask levels of a book whose
\* Bid side holds a level.
C10_Witness ==
  /\ ~panicked
  /\ touched = "Ask"
  /\ updates = 2
  /\ get_total_quantity(Self, "Bid") > 0
  /\ get_best_bid(Self) # None
  /\ get_total_quantity(Self, "Ask") > 0

\* C11: a book on which no update has been applied answers None to
\* get_best_bid, get_best_ask and get_spread, None to get_quantity_at for
\* every price and both sides, the empty sequence to get_top_levels for
\* both sides and every n, and 0 to get_total_quantity for both sides.
C11_FreshBookIsEmpty ==
  updates = 0 =>
    /\ get_best_bid(Self) = None
    /\ get_best_ask(Self) = None
    /\ get_spread(Self) = None
    /\ \A side \in Side :
         /\ \A p \in Prices \cup ProbePrices :
              get_quantity_at(Self, p, side) = None
         /\ \A n \in 0 .. CAP : get_top_levels(Self, side, n) = <<>>
         /\ get_total_quantity(Self, side) = 0

\* The freshly constructed book, before any update.
C11_Witness ==
  /\ updates = 0
  /\ touched = "none"
  /\ Self = new
  /\ get_top_levels(Self, "Ask", 1) = <<>>

\* C12: apply_update never fails, and the additions and subtractions that
\* maintain a side's total never overflow or underflow: no call has
\* panicked, no total has wrapped, and each total is the true sum of its
\* side's slots.
C12_TotalNeverOverflows ==
  /\ ~panicked
  /\ ~wrapped
  /\ total_bid_quantity = SumSlots(bids, 0)
  /\ total_ask_quantity = SumSlots(asks, 0)

\* The slot index that apply_update and get_quantity_at compute for a price.
slot_index(self, price) ==
  BitAnd(WrappingSubUsize(price, self.anchor_price), CAP_MASK)

\* C13: for every input price, below the anchor and far outside the window
\* included, the slot index computed for it lies in [0, CAP), the level
\* arrays are read and written only at indices in [0, CAP), and
\* best_bid_idx and best_ask_idx lie in [0, CAP).
C13_IndicesInRange ==
  /\ best_bid_idx \in Slots
  /\ best_ask_idx \in Slots
  /\ DOMAIN bids = Slots
  /\ DOMAIN asks = Slots
  /\ \A p \in Prices \cup ProbePrices :
       /\ slot_index(Self, p) \in Slots
       /\ \A side \in Side :
            get_quantity_at(Self, p, side) \in
              {None} \cup {Some(q) : q \in Quantity}
  /\ \A side \in Side :
       recalculate_best_index(side, SideBest(Self, side), SideBook(Self, side))
         \in Slots

\* The Bid side holds a level set at a price below the anchor (a negative
\* difference, wrapped) and a level in the slot of a price more than a
\* window above the anchor, and the best index is the slot of the first.
C13_Witness ==
  /\ ~panicked
  /\ updates >= 2
  /\ (ANCHOR + 2 + CAP) \in AliasPrices \ Window
  /\ bids[slot_index(Self, ANCHOR - 1 - CAP)] > 0
  /\ bids[slot_index(Self, ANCHOR + 2 + CAP)] > 0
  /\ best_bid_idx = slot_index(Self, ANCHOR - 1 - CAP)

\* get_best_bid or get_best_ask, by side.
BestPrice(self, side) ==
  IF side = "Bid" THEN get_best_bid(self) ELSE get_best_ask(self)

\* The better of two prices of a side: the higher bid, the lower ask.
Better(side, p1, p2) ==
  IF side = "Bid" THEN Max({p1, p2}) ELSE Min({p1, p2})

\* C14: when Set(p, q, side) with q > 0 and p in the window is applied and
\* returns: if the side had no level before, the best price becomes p;
\* otherwise, if the best price before and p differ by less than CAP/2
\* ticks, the best price afterwards is the higher of the two for Bid and
\* the lower of the two for Ask.
C14_SetMovesBestToBetter ==
  ~panicked =>
    \A side \in Side, p \in Window, q \in UpdateQuantities \ {0},
       checks \in Builds :
      LET out == apply_update(Self, SetUpdate(p, q, side), checks)
          before == BestPrice(Self, side)
          after == BestPrice(out.book, side)
      IN ~out.panicked =>
           IF LivePrices(Self, side) = {} THEN after = Some(p)
           ELSE (/\ before # None
                 /\ before[2] \in Window
                 /\ p - before[2] < HALF_CAP
                 /\ before[2] - p < HALF_CAP)
                  => after = Some(Better(side, before[2], p))

\* C15: recalculate_best_index runs only in an update that clears the slot
\* holding the side's best index: a Set with quantity > 0 never runs it, a
\* Remove or Set 0 runs it only if it cleared the best slot, and a Remove
\* or Set 0 of another slot leaves the side's best index unchanged.
C15_RescanOnlyWhenBestCleared ==
  ~panicked =>
    \A side \in Side, p \in Prices, checks \in Builds :
      LET index == slot_index(Self, p)
          best_idx == SideBest(Self, side)
          clears == {apply_update(Self, RemoveUpdate(p, side), checks),
                     apply_update(Self, SetUpdate(p, 0, side), checks)}
      IN /\ \A q \in UpdateQuantities \ {0} :
              ~apply_update(Self, SetUpdate(p, q, side), checks).rescanned
         /\ \A out \in clears :
              /\ out.rescanned =>
                   /\ index = best_idx
                   /\ SideBook(Self, side)[index] > 0
                   /\ SideBook(out.book, side)[index] = 0
              /\ index # best_idx => SideBest(out.book, side) = best_idx

\* A side holds two levels: removing the one in the best slot rescans and
\* moves the best index, removing the other one does neither.
C15_Witness ==
  /\ ~panicked
  /\ \E side \in Side :
       \E p1, p2 \in Prices :
         LET hit == apply_update(Self, RemoveUpdate(p1, side), FALSE)
             miss == apply_update(Self, RemoveUpdate(p2, side), FALSE)
         IN /\ slot_index(Self, p1) = SideBest(Self, side)
            /\ hit.rescanned
            /\ SideBest(hit.book, side) # SideBest(Self, side)
            /\ slot_index(Self, p2) # SideBest(Self, side)
            /\ SideBook(Self, side)[slot_index(Self, p2)] > 0
            /\ ~miss.rescanned
            /\ SideBest(miss.book, side) = SideBest(Self, side)

NoLevel(self, side) == \A i \in Slots : SideBook(self, side)[i] = 0

\* The best index of a side without levels: 0 for Bid, CAP_MASK for Ask.
Sentinel(side) == IF side = "Bid" THEN 0 ELSE CAP_MASK

\* C17: in every reachable state in which a side has no non-zero level,
\* its total is 0 and its best index is the empty-book sentinel, slot 0
\* for Bid and slot CAP-1 for Ask: initially and whenever the last level
\* of the side has been removed.
C17_EmptySideHasSentinel ==
  \A side \in Side :
    NoLevel(Self, side) =>
      /\ get_total_quantity(Self, side) = 0
      /\ SideBest(Self, side) = Sentinel(side)

\* A side holds its last level in a slot other than its sentinel, and
\* removing it rescans and leaves the sentinel.
C17_Witness ==
  /\ ~panicked
  /\ \E side \in Side, p \in Prices :
       LET out == apply_update(Self, RemoveUpdate(p, side), FALSE)
       IN /\ ~NoLevel(Self, side)
          /\ SideBest(Self, side) # Sentinel(side)
          /\ slot_index(Self, p) = SideBest(Self, side)
          /\ out.rescanned
          /\ NoLevel(out.book, side)
          /\ SideBest(out.book, side) = Sentinel(side)

\* The numbers of whole windows by which an aliasing price is shifted.
Laps == {-2, -1, 1, 2}

\* C18: prices that differ by a multiple of CAP are indistinguishable: from
\* any state, for a price p, a shift k * CAP, a side and a quantity,
\* Set(p + k*CAP, q, side) and Remove(p + k*CAP, side) end exactly as
\* Set(p, q, side) and Remove(p, side) do, get_quantity_at answers the same
\* for both prices, and the shifted update is carried out: it overwrites
\* the level of p.
C18_AliasedPricesAreOne ==
  ~panicked =>
    \A side \in Side, p \in Window, k \in Laps :
      LET alias == p + k * CAP
      IN alias \in ProbePrices =>
           /\ get_quantity_at(Self, alias, side) = get_quantity_at(Self, p, side)
           /\ \A checks \in Builds :
                /\ apply_update(Self, RemoveUpdate(alias, side), checks)
                     = apply_update(Self, RemoveUpdate(p, side), checks)
                /\ get_quantity_at(
                     apply_update(Self, RemoveUpdate(alias, side), checks).book,
                     p, side) = None
                /\ \A q \in UpdateQuantities :
                     LET out == apply_update(Self, SetUpdate(alias, q, side), checks)
                     IN /\ out = apply_update(Self, SetUpdate(p, q, side), checks)
                        /\ get_quantity_at(out.book, p, side)
                             = IF q = 0 THEN None ELSE Some(q)

\* A side holds a level at an in-window price, and a Set at the price one
\* window above or below it replaces that level's quantity.
C18_Witness ==
  /\ ~panicked
  /\ \E side \in Side, p \in Window, k \in {-1, 1} :
       LET out == apply_update(Self, SetUpdate(p + k * CAP, QuantityMax, side), FALSE)
       IN /\ get_quantity_at(Self, p, side) = Some(1)
          /\ (p + k * CAP) \notin Window
          /\ ~out.panicked
          /\ get_quantity_at(out.book, p, side) = Some(QuantityMax)
          /\ get_quantity_at(out.book, p + k * CAP, side) = Some(QuantityMax)

\* C19: in every state reached by in-window updates whose live levels lie
\* within a half-capacity span (stated here for runs in which no total
\* has overflowed): whenever a side has a level, the price of the first
\* element of get_top_levels(side, 1) is the price get_best_bid /
\* get_best_ask reports, and get_top_levels(side, n) with n >= 1 is empty
\* exactly when get_best of that side is None.
C19_TopLevelsAgreeWithBest ==
  (~panicked /\ ~wrapped) =>
    \A side \in Side :
      LET top1 == get_top_levels(Self, side, 1)
          best == BestPrice(Self, side)
      IN /\ ~NoLevel(Self, side) =>
              /\ Len(top1) = 1
              /\ best = Some(top1[1][1])
         /\ \A n \in 1 .. CAP :
              (get_top_levels(Self, side, n) = <<>>) <=> (best = None)

====
